---- MODULE Spec2Model ----
(***************************************************************************)
(* Model of app.py, the Streamlit "Gemini AI Study Assistant".             *)
(*                                                                         *)
(* The script is executed top to bottom once per script run.  Streamlit    *)
(* runs it when a browser session loads the page and again after every     *)
(* widget interaction of that session (a text field edited, a button       *)
(* clicked).  A button reads True only in the run its click caused.        *)
(*                                                                         *)
(* Streamlit executes every script run in a thread of its own and, as it   *)
(* is configured by default (runner.fastReruns), starts the run an         *)
(* interaction asks for at once: the run of the session that is still      *)
(* executing is told to stop and goes on beside the new one until its next *)
(* Streamlit call, where it ends (by an exception that is no Exception, so *)
(* no except clause of the script catches it).  Statements that call       *)
(* nothing of Streamlit, genai.configure and the blocking generate_content *)
(* among them, are still executed by a run that was told to stop.          *)
(*                                                                         *)
(* One process serves every session: what genai.configure stored is shared *)
(* by all runs of all sessions, the script variables and the rendered      *)
(* elements belong to one run.                                             *)
(*                                                                         *)
(* Text is modelled character by character: a Python str is a sequence of  *)
(* one-character strings and an f-string is the concatenation of its       *)
(* literal pieces and its interpolated values.  An optional value (a       *)
(* variable that may be None or unset) is NoValue or Some(v).              *)
(*                                                                         *)
(* The display records the elements the claims speak about: st.error,      *)
(* st.warning, st.subheader and st.markdown of the handlers and of the     *)
(* startup code, and the closing st.info.  The fixed layout (title,        *)
(* captions, tab headers) carries no state and is passed over in one step. *)
(***************************************************************************)
EXTENDS Integers, Sequences, FiniteSets, TLC

\* ------------------------------------------------------------------ bounds

\* Characters the fields of one session hold, all three together.
MaxInputLen == 1

\* Script runs the process starts, one for every page load and every widget
\* interaction, all sessions together.
MaxRuns == 3

\* Script threads executing at one time, all sessions together.
MaxThreads == 2

\* ------------------------------------------------------- text of the script

\* The grave accent (U+0060), the character of the code fence in the debug
\* prompt.  SANY cannot read that character inside a string literal, so this
\* one character is spelled out.
Grave == "GRAVE ACCENT"

\* app.py:29  "Google API Key not found. Please set it as an environment variable or in Streamlit secrets."
KeyMissingText ==
  <<"G","o","o","g","l","e"," ","A","P","I"," ","K","e","y"," ","n","o","t"," ","f","o",
    "u","n","d","."," ","P","l","e","a","s","e"," ","s","e","t"," ","i","t"," ","a","s",
    " ","a","n"," ","e","n","v","i","r","o","n","m","e","n","t"," ","v","a","r","i","a",
    "b","l","e"," ","o","r"," ","i","n"," ","S","t","r","e","a","m","l","i","t"," ","s",
    "e","c","r","e","t","s",".">>

\* app.py:32  "Error configuring Gemini API: "
ConfigErrorPrefix ==
  <<"E","r","r","o","r"," ","c","o","n","f","i","g","u","r","i","n","g"," ","G","e","m",
    "i","n","i"," ","A","P","I",":"," ">>

\* app.py:32  ". Please ensure your API key is set."
ConfigErrorSuffix ==
  <<"."," ","P","l","e","a","s","e"," ","e","n","s","u","r","e"," ","y","o","u","r"," ",
    "A","P","I"," ","k","e","y"," ","i","s"," ","s","e","t",".">>

\* app.py:39  "Failed to initialize Gemini model: "
InitErrorPrefix ==
  <<"F","a","i","l","e","d"," ","t","o"," ","i","n","i","t","i","a","l","i","z","e"," ",
    "G","e","m","i","n","i"," ","m","o","d","e","l",":"," ">>

\* app.py:39  ". Please check your API key and network connection."
InitErrorSuffix ==
  <<"."," ","P","l","e","a","s","e"," ","c","h","e","c","k"," ","y","o","u","r"," ","A",
    "P","I"," ","k","e","y"," ","a","n","d"," ","n","e","t","w","o","r","k"," ","c","o",
    "n","n","e","c","t","i","o","n",".">>

\* app.py:77  "Debug the following code. Explain any errors, suggest fixes, and provide a corrected version if necessary:\n\n<grave><grave><grave>\n"
DebugPromptPrefix ==
  <<"D","e","b","u","g"," ","t","h","e"," ","f","o","l","l","o","w","i","n","g"," ","c",
    "o","d","e","."," ","E","x","p","l","a","i","n"," ","a","n","y"," ","e","r","r","o",
    "r","s",","," ","s","u","g","g","e","s","t"," ","f","i","x","e","s",","," ","a","n",
    "d"," ","p","r","o","v","i","d","e"," ","a"," ","c","o","r","r","e","c","t","e","d",
    " ","v","e","r","s","i","o","n"," ","i","f"," ","n","e","c","e","s","s","a","r","y",
    ":","\n","\n",Grave,Grave,Grave,"\n">>

\* app.py:77  "\n<grave><grave><grave>"
DebugPromptSuffix ==
  <<"\n",Grave,Grave,Grave>>

\* app.py:79  "Debugging Report:"
DebugHeading ==
  <<"D","e","b","u","g","g","i","n","g"," ","R","e","p","o","r","t",":">>

\* app.py:82  "An error occurred while debugging: "
DebugErrorPrefix ==
  <<"A","n"," ","e","r","r","o","r"," ","o","c","c","u","r","r","e","d"," ","w","h","i",
    "l","e"," ","d","e","b","u","g","g","i","n","g",":"," ">>

\* app.py:84  "Please enter some code to debug."
DebugWarning ==
  <<"P","l","e","a","s","e"," ","e","n","t","e","r"," ","s","o","m","e"," ","c","o","d",
    "e"," ","t","o"," ","d","e","b","u","g",".">>

\* app.py:98  "Explain the following topic in simple terms, using analogies and a clear, relatable example:\n\nTopic: "
TopicPromptPrefix ==
  <<"E","x","p","l","a","i","n"," ","t","h","e"," ","f","o","l","l","o","w","i","n","g",
    " ","t","o","p","i","c"," ","i","n"," ","s","i","m","p","l","e"," ","t","e","r","m",
    "s",","," ","u","s","i","n","g"," ","a","n","a","l","o","g","i","e","s"," ","a","n",
    "d"," ","a"," ","c","l","e","a","r",","," ","r","e","l","a","t","a","b","l","e"," ",
    "e","x","a","m","p","l","e",":","\n","\n","T","o","p","i","c",":"," ">>

\* app.py:100  "Explanation for <apostrophe>"
ExplanationPrefix ==
  <<"E","x","p","l","a","n","a","t","i","o","n"," ","f","o","r"," ","'">>

\* app.py:100  "<apostrophe>:"
ExplanationSuffix ==
  <<"'",":">>

\* app.py:103  "An error occurred while explaining the topic: "
TopicErrorPrefix ==
  <<"A","n"," ","e","r","r","o","r"," ","o","c","c","u","r","r","e","d"," ","w","h","i",
    "l","e"," ","e","x","p","l","a","i","n","i","n","g"," ","t","h","e"," ","t","o","p",
    "i","c",":"," ">>

\* app.py:105  "Please enter a topic to explain."
TopicWarning ==
  <<"P","l","e","a","s","e"," ","e","n","t","e","r"," ","a"," ","t","o","p","i","c"," ",
    "t","o"," ","e","x","p","l","a","i","n",".">>

\* app.py:119  "Explain the data analysis concept <apostrophe>"
ConceptPromptPrefix ==
  <<"E","x","p","l","a","i","n"," ","t","h","e"," ","d","a","t","a"," ","a","n","a","l",
    "y","s","i","s"," ","c","o","n","c","e","p","t"," ","'">>

\* app.py:119  "<apostrophe> in detail, including its purpose, how it<apostrophe>s used, and a simple example if applicable."
ConceptPromptSuffix ==
  <<"'"," ","i","n"," ","d","e","t","a","i","l",","," ","i","n","c","l","u","d","i","n",
    "g"," ","i","t","s"," ","p","u","r","p","o","s","e",","," ","h","o","w"," ","i","t",
    "'","s"," ","u","s","e","d",","," ","a","n","d"," ","a"," ","s","i","m","p","l","e",
    " ","e","x","a","m","p","l","e"," ","i","f"," ","a","p","p","l","i","c","a","b","l",
    "e",".">>

\* app.py:124  "An error occurred while explaining the concept: "
ConceptErrorPrefix ==
  <<"A","n"," ","e","r","r","o","r"," ","o","c","c","u","r","r","e","d"," ","w","h","i",
    "l","e"," ","e","x","p","l","a","i","n","i","n","g"," ","t","h","e"," ","c","o","n",
    "c","e","p","t",":"," ">>

\* app.py:126  "Please enter a data analysis concept."
ConceptWarning ==
  <<"P","l","e","a","s","e"," ","e","n","t","e","r"," ","a"," ","d","a","t","a"," ","a",
    "n","a","l","y","s","i","s"," ","c","o","n","c","e","p","t",".">>

\* app.py:129  "Powered by Google Gemini LLM"
FooterText ==
  <<"P","o","w","e","r","e","d"," ","b","y"," ","G","o","o","g","l","e"," ","G","e","m",
    "i","n","i"," ","L","L","M">>

\* ------------------------------------------------------------ value spaces

NoValue == <<>>

Some(v) == <<v>>

\* Characters a user types: a space and a letter that no template contains.
Chars == {" ", "z"}

RECURSIVE StringsUpTo(_)
StringsUpTo(n) ==
  IF n = 0 THEN {<<>>}
  ELSE LET shorter == StringsUpTo(n - 1)
       IN  shorter \cup {Append(s, c) : s \in {x \in shorter : Len(x) = n - 1}, c \in Chars}

UserInputs == StringsUpTo(MaxInputLen)

\* The two API keys an installation may hold, told apart by where they are kept.
EnvKey == <<"k">>

SecretKey == <<"s">>

\* os.getenv('GOOGLE_API_KEY'): unset, set to "", set to a key.
EnvValues == {NoValue, Some(<<>>), Some(EnvKey)}

\* st.secrets: no readable secrets file, or a mapping without the key, with an
\* empty value, with a key.
SecretsStores ==
  {[readable |-> FALSE, value |-> NoValue]}
    \cup {[readable |-> TRUE, value |-> v] : v \in {NoValue, Some(<<>>), Some(SecretKey)}}

\* Messages carried by the exceptions the libraries raise.
ErrMsgs == {<<"q","u","o","t","a">>}

\* The text the hosted model answers with.
ResponseTexts == {<<"S">>}

\* What generate_content returns: an object whose .text yields the text, or one
\* whose .text raises ValueError (a reply without a usable candidate).
Responses ==
  {[has_text |-> TRUE, text |-> s] : s \in ResponseTexts}
    \cup {[has_text |-> FALSE, text |-> m] : m \in ErrMsgs}

Tabs == {1, 2, 3}

\* The sessions the process serves side by side, in the order they first load
\* the page.  A page load takes a place none of whose runs is executing.
Sessions == {1, 2}

\* The script runs, numbered in the order they start.
Runs == 1..MaxRuns

\* ------------------------------------------------------------------- state

VARIABLES
  env,             \* the process environment's GOOGLE_API_KEY
  secrets,         \* the local secrets store
  credential,      \* the api_key genai.configure stored, process-wide
  configureCalls,  \* genai.configure calls of the process
  runs,            \* script runs started in the process
  \* for every session:
  widgets,         \* the text its three fields hold
  fields,          \* the tabs whose text field the browser shows
  buttons,         \* the tabs whose button the browser shows
  current,         \* its latest script run, 0 before the page is loaded
  \* for every script run:
  session,         \* the session it serves, 0 when it is not executing
  clicked,         \* the tab whose button reads True in it, 0 for none
  stopping,        \* it was told to stop: a newer run of its session started
  pc,              \* the statement it is at ("none": not started, or replaced)
  tab,             \* the tab whose block is executing, 0 outside the tabs
  GOOGLE_API_KEY,  \* script variable, line 10
  model,           \* script variable, line 37: TRUE once constructed
  inputs,          \* script variables code_input, topic_input, concept_input
  prompt,          \* script variable prompt
  response,        \* script variable response
  exc,             \* the exception raised inside the try block entered
  calls,           \* its generate_content calls: <<[tab, prompt]>>
  inFlight,        \* its generate_content calls that have not returned
  display          \* the elements it rendered: <<[tab, kind, text]>>

process == <<env, secrets>>

shared == <<credential, configureCalls>>

browser == <<widgets, fields, buttons, current>>

thread == <<session, clicked, stopping>>

locals == <<GOOGLE_API_KEY, model, inputs, prompt, response, exc>>

vars ==
  <<process, shared, runs, browser, thread, pc, tab, locals, calls, inFlight,
    display>>

\* ----------------------------------------------------------- pure helpers



\* Python truth value of a str or of None.
Truthy(v) == v # NoValue /\ v[1] # <<>>

\* Python truth value of a str.
NonEmpty(s) == s # <<>>

Element(t, k, s) == [tab |-> t, kind |-> k, text |-> s]

\* f"Error configuring Gemini API: {e}. Please ensure your API key is set."
ConfigErrorText(e) == ConfigErrorPrefix \o e \o ConfigErrorSuffix

\* f"Failed to initialize Gemini model: {e}. Please check ..."
InitErrorText(e) == InitErrorPrefix \o e \o InitErrorSuffix

\* Mutation of PromptText: the input loses its last character before it is
\* embedded.
PromptTextTruncated(t, s) ==
  LET cut == SubSeq(s, 1, Len(s) - 1)
  IN  CASE t = 1 -> DebugPromptPrefix \o cut \o DebugPromptSuffix
        [] t = 2 -> TopicPromptPrefix \o cut
        [] t = 3 -> ConceptPromptPrefix \o cut \o ConceptPromptSuffix

\* The three prompt templates.
PromptText(t, s) ==
  CASE t = 1 -> DebugPromptPrefix \o s \o DebugPromptSuffix
    [] t = 2 -> TopicPromptPrefix \o s
    [] t = 3 -> ConceptPromptPrefix \o s \o ConceptPromptSuffix

\* Mutation of HeadingText: every heading is a fixed text, and the response
\* of the first tab is announced as an explanation.
HeadingTextNoInput(t, s) == ExplanationPrefix \o ExplanationSuffix

\* The subheader shown above a response.
HeadingText(t, s) ==
  CASE t = 1 -> DebugHeading
    [] t = 2 -> ExplanationPrefix \o s \o ExplanationSuffix
    [] t = 3 -> ExplanationPrefix \o s \o ExplanationSuffix

\* Mutation of ErrorText: the message of the exception is left out.
ErrorTextGeneric(t, e) ==
  CASE t = 1 -> DebugErrorPrefix
    [] t = 2 -> TopicErrorPrefix
    [] t = 3 -> ConceptErrorPrefix

\* The message of the except clause.
ErrorText(t, e) ==
  CASE t = 1 -> DebugErrorPrefix \o e
    [] t = 2 -> TopicErrorPrefix \o e
    [] t = 3 -> ConceptErrorPrefix \o e

\* The message of the else branch.
WarningText(t) ==
  CASE t = 1 -> DebugWarning
    [] t = 2 -> TopicWarning
    [] t = 3 -> ConceptWarning

\* --------------------------------------------------------------- beginning

NoInputs == [t \in Tabs |-> NoValue]

NoText == [t \in Tabs |-> <<>>]

Init ==
  /\ env \in EnvValues
  /\ secrets \in SecretsStores
  /\ credential = NoValue
  /\ configureCalls = 0
  /\ runs = 0
  /\ widgets = [s \in Sessions |-> NoText]
  /\ fields = [s \in Sessions |-> {}]
  /\ buttons = [s \in Sessions |-> {}]
  /\ current = [s \in Sessions |-> 0]
  /\ session = [r \in Runs |-> 0]
  /\ clicked = [r \in Runs |-> 0]
  /\ stopping = [r \in Runs |-> FALSE]
  /\ pc = [r \in Runs |-> "none"]
  /\ tab = [r \in Runs |-> 0]
  /\ GOOGLE_API_KEY = [r \in Runs |-> NoValue]
  /\ model = [r \in Runs |-> FALSE]
  /\ inputs = [r \in Runs |-> NoInputs]
  /\ prompt = [r \in Runs |-> NoValue]
  /\ response = [r \in Runs |-> NoValue]
  /\ exc = [r \in Runs |-> NoValue]
  /\ calls = [r \in Runs |-> <<>>]
  /\ inFlight = [r \in Runs |-> 0]
  /\ display = [r \in Runs |-> <<>>]

\* Run r goes on at statement p.
Goto(r, p) == pc' = [pc EXCEPT ![r] = p]

\* Run r renders one more element.
Render(r, e) == display' = [display EXCEPT ![r] = Append(@, e)]

\* Run r is at a statement that calls Streamlit.  st.markdown(response.text)
\* calls it only when reading response.text has not raised, the lookup in
\* st.secrets only when there is no secrets file, which it reports on the
\* page.
AtStreamlitCall(r) ==
  /\ pc[r] \in {"check_secrets", "key_missing", "configure_error", "init_error",
                "page", "input", "button", "build", "subheader", "markdown",
                "except", "warning", "footer"}
  /\ pc[r] = "check_secrets" => ~secrets.readable
  /\ pc[r] = "markdown" => response[r][1].has_text

\* ----------------------------------------------------- startup, lines 10-40

\* line 10: GOOGLE_API_KEY = os.getenv('GOOGLE_API_KEY')
GetEnv(r) ==
  /\ pc[r] = "getenv"
  /\ GOOGLE_API_KEY' = [GOOGLE_API_KEY EXCEPT ![r] = env]
  /\ Goto(r, "check_key")
  /\ UNCHANGED <<process, shared, runs, browser, thread, tab, model, inputs,
                 prompt, response, exc, calls, inFlight, display>>

\* Mutation of CheckKey: the test is "is not None", which an empty value passes.
CheckKeyNotNone(r) ==
  /\ pc[r] = "check_key"
  /\ Goto(r, IF GOOGLE_API_KEY[r] # NoValue THEN "configure_env" ELSE "check_secrets")
  /\ UNCHANGED <<process, shared, runs, browser, thread, tab, locals, calls,
                 inFlight, display>>

\* line 18: if GOOGLE_API_KEY:
CheckKey(r) ==
  /\ pc[r] = "check_key"
  /\ Goto(r, IF Truthy(GOOGLE_API_KEY[r]) THEN "configure_env" ELSE "check_secrets")
  /\ UNCHANGED <<process, shared, runs, browser, thread, tab, locals, calls,
                 inFlight, display>>

\* genai.configure(api_key=k): k becomes the process-wide credential.
Configure(k) ==
  /\ credential' = Some(k)
  /\ configureCalls' = configureCalls + 1

\* line 19: genai.configure(api_key=GOOGLE_API_KEY)
ConfigureFromEnv(r) ==
  /\ pc[r] = "configure_env"
  /\ Configure(GOOGLE_API_KEY[r][1])
  /\ Goto(r, "init_model")
  /\ UNCHANGED <<process, runs, browser, thread, tab, locals, calls, inFlight,
                 display>>

\* line 26: if "GOOGLE_API_KEY" in st.secrets: with no secrets file to read,
\* the lookup renders an error of its own and raises an exception with the
\* same message, which the except clause of line 31 catches.
CheckSecrets(r) ==
  /\ pc[r] = "check_secrets"
  /\ \/ /\ ~secrets.readable
        /\ ~stopping[r]
        /\ \E m \in ErrMsgs :
             /\ Render(r, Element(0, "error", m))
             /\ exc' = [exc EXCEPT ![r] = Some(m)]
        /\ Goto(r, "configure_error")
     \/ /\ secrets.readable
        /\ exc' = exc
        /\ display' = display
        /\ Goto(r, IF secrets.value # NoValue THEN "configure_secret" ELSE "key_missing")
  /\ UNCHANGED <<process, shared, runs, browser, thread, tab, GOOGLE_API_KEY,
                 model, inputs, prompt, response, calls, inFlight>>

\* line 27: genai.configure(api_key=st.secrets["GOOGLE_API_KEY"])
ConfigureFromSecrets(r) ==
  /\ pc[r] = "configure_secret"
  /\ Configure(secrets.value[1])
  /\ Goto(r, "init_model")
  /\ UNCHANGED <<process, runs, browser, thread, tab, locals, calls, inFlight,
                 display>>

\* st.stop(): run r ends here, and with it the page of its session holds only
\* what this run rendered.
Stop(r) ==
  /\ Goto(r, "stopped")
  /\ fields' = [fields EXCEPT ![session[r]] = {}]
  /\ buttons' = [buttons EXCEPT ![session[r]] = {}]

\* lines 29-30: st.error(...); st.stop().  StopException is not an Exception,
\* so the except clause of line 31 lets it pass.
KeyMissing(r) ==
  /\ pc[r] = "key_missing"
  /\ ~stopping[r]
  /\ Render(r, Element(0, "error", KeyMissingText))
  /\ Stop(r)
  /\ UNCHANGED <<process, shared, runs, widgets, current, thread, tab, locals,
                 calls, inFlight>>

\* lines 31-33: except Exception as e: st.error(...); st.stop()
ConfigureError(r) ==
  /\ pc[r] = "configure_error"
  /\ ~stopping[r]
  /\ Render(r, Element(0, "error", ConfigErrorText(exc[r][1])))
  /\ Stop(r)
  /\ UNCHANGED <<process, shared, runs, widgets, current, thread, tab, locals,
                 calls, inFlight>>

\* lines 36-37: model = genai.GenerativeModel(...), or the constructor raises
\* and the except clause of line 38 is entered.
InitModel(r) ==
  /\ pc[r] = "init_model"
  /\ \/ /\ model' = [model EXCEPT ![r] = TRUE]
        /\ exc' = exc
        /\ Goto(r, "page")
     \/ /\ \E m \in ErrMsgs : exc' = [exc EXCEPT ![r] = Some(m)]
        /\ model' = model
        /\ Goto(r, "init_error")
  /\ UNCHANGED <<process, shared, runs, browser, thread, tab, GOOGLE_API_KEY,
                 inputs, prompt, response, calls, inFlight, display>>

\* lines 38-40: except Exception as e: st.error(...); st.stop()
InitModelError(r) ==
  /\ pc[r] = "init_error"
  /\ ~stopping[r]
  /\ Render(r, Element(0, "error", InitErrorText(exc[r][1])))
  /\ Stop(r)
  /\ UNCHANGED <<process, shared, runs, widgets, current, thread, tab, locals,
                 calls, inFlight>>

\* lines 43-54: page configuration, title, introduction, the three tabs.
RenderPage(r) ==
  /\ pc[r] = "page"
  /\ ~stopping[r]
  /\ Goto(r, "input")
  /\ tab' = [tab EXCEPT ![r] = 1]
  /\ UNCHANGED <<process, shared, runs, browser, thread, locals, calls, inFlight,
                 display>>

\* ------------------------------------------ the three handlers, lines 57-126

\* Run r leaves the block of tab t: on to the next tab, or to the last lines
\* of the page.
LeaveTab(r, t) ==
  IF t < 3 THEN /\ tab' = [tab EXCEPT ![r] = t + 1]
                /\ Goto(r, "input")
           ELSE /\ tab' = [tab EXCEPT ![r] = 0]
                /\ Goto(r, "footer")

\* lines 58-61, 88-92, 109-113: the tab's header and its text field, whose
\* current value becomes code_input, topic_input or concept_input.
ReadInput(r, t) ==
  /\ pc[r] = "input" /\ tab[r] = t
  /\ ~stopping[r]
  /\ inputs' = [inputs EXCEPT ![r][t] = Some(widgets[session[r]][t])]
  /\ fields' = [fields EXCEPT ![session[r]] = @ \cup {t}]
  /\ Goto(r, "button")
  /\ UNCHANGED <<process, shared, runs, widgets, buttons, current, thread, tab,
                 GOOGLE_API_KEY, model, prompt, response, exc, calls, inFlight,
                 display>>

\* Mutation of CheckButton: the block is entered whenever any button was
\* clicked.
CheckButtonAny(r, t) ==
  /\ pc[r] = "button" /\ tab[r] = t
  /\ ~stopping[r]
  /\ buttons' = [buttons EXCEPT ![session[r]] = @ \cup {t}]
  /\ IF clicked[r] # 0 THEN Goto(r, "validate") /\ tab' = tab
                       ELSE LeaveTab(r, t)
  /\ UNCHANGED <<process, shared, runs, widgets, fields, current, thread, locals,
                 calls, inFlight, display>>

\* lines 73, 94, 115: if st.button(...):
CheckButton(r, t) ==
  /\ pc[r] = "button" /\ tab[r] = t
  /\ ~stopping[r]
  /\ buttons' = [buttons EXCEPT ![session[r]] = @ \cup {t}]
  /\ IF clicked[r] = t THEN Goto(r, "validate") /\ tab' = tab
                       ELSE LeaveTab(r, t)
  /\ UNCHANGED <<process, shared, runs, widgets, fields, current, thread, locals,
                 calls, inFlight, display>>

\* lines 74, 95, 116: if code_input: / if topic_input: / if concept_input:
Validate(r, t) ==
  /\ pc[r] = "validate" /\ tab[r] = t
  /\ Goto(r, IF NonEmpty(inputs[r][t][1]) THEN "build" ELSE "warning")
  /\ UNCHANGED <<process, shared, runs, browser, thread, tab, locals, calls,
                 inFlight, display>>

\* lines 75-77, 96-98, 117-119: with st.spinner(...): try: prompt = f"..."
BuildPrompt(r, t) ==
  /\ pc[r] = "build" /\ tab[r] = t
  /\ ~stopping[r]
  /\ prompt' = [prompt EXCEPT ![r] = Some(PromptText(t, inputs[r][t][1]))]
  /\ Goto(r, "generate")
  /\ UNCHANGED <<process, shared, runs, browser, thread, tab, GOOGLE_API_KEY,
                 model, inputs, response, exc, calls, inFlight, display>>

\* lines 78, 99, 120: model.generate_content(prompt) is entered ...
CallModel(r, t) ==
  /\ pc[r] = "generate" /\ tab[r] = t
  /\ calls' = [calls EXCEPT ![r] = Append(@, [tab |-> t, prompt |-> prompt[r][1]])]
  /\ inFlight' = [inFlight EXCEPT ![r] = @ + 1]
  /\ Goto(r, "await")
  /\ UNCHANGED <<process, shared, runs, browser, thread, tab, locals, display>>

\* ... and returns a response, bound to response,
ModelReturns(r, t) ==
  /\ pc[r] = "await" /\ tab[r] = t
  /\ \E x \in Responses : response' = [response EXCEPT ![r] = Some(x)]
  /\ inFlight' = [inFlight EXCEPT ![r] = @ - 1]
  /\ Goto(r, "subheader")
  /\ UNCHANGED <<process, shared, runs, browser, thread, tab, GOOGLE_API_KEY,
                 model, inputs, prompt, exc, calls, display>>

\* ... or raises, which the except clause of lines 81, 102, 123 catches.
ModelFails(r, t) ==
  /\ pc[r] = "await" /\ tab[r] = t
  /\ \E m \in ErrMsgs : exc' = [exc EXCEPT ![r] = Some(m)]
  /\ inFlight' = [inFlight EXCEPT ![r] = @ - 1]
  /\ Goto(r, "except")
  /\ UNCHANGED <<process, shared, runs, browser, thread, tab, GOOGLE_API_KEY,
                 model, inputs, prompt, response, calls, display>>

\* lines 79, 100, 121: st.subheader(...)
ShowHeading(r, t) ==
  /\ pc[r] = "subheader" /\ tab[r] = t
  /\ ~stopping[r]
  /\ Render(r, Element(t, "subheader", HeadingText(t, inputs[r][t][1])))
  /\ Goto(r, "markdown")
  /\ UNCHANGED <<process, shared, runs, browser, thread, tab, locals, calls,
                 inFlight>>

\* lines 80, 101, 122: st.markdown(response.text), reading .text raises: the
\* except clause is entered with nothing more rendered.
ResponseTextRaises(r, t) ==
  /\ pc[r] = "markdown" /\ tab[r] = t
  /\ ~response[r][1].has_text
  /\ exc' = [exc EXCEPT ![r] = Some(response[r][1].text)]
  /\ Goto(r, "except")
  /\ UNCHANGED <<process, shared, runs, browser, thread, tab, GOOGLE_API_KEY,
                 model, inputs, prompt, response, calls, inFlight, display>>

\* lines 80, 101, 122: st.markdown(response.text)
ShowResponse(r, t) ==
  /\ pc[r] = "markdown" /\ tab[r] = t
  /\ response[r][1].has_text
  /\ ~stopping[r]
  /\ Render(r, Element(t, "markdown", response[r][1].text))
  /\ LeaveTab(r, t)
  /\ UNCHANGED <<process, shared, runs, browser, thread, locals, calls, inFlight>>

\* lines 82, 103, 124: st.error(f"An error occurred while ...: {e}")
ShowError(r, t) ==
  /\ pc[r] = "except" /\ tab[r] = t
  /\ ~stopping[r]
  /\ Render(r, Element(t, "error", ErrorText(t, exc[r][1])))
  /\ LeaveTab(r, t)
  /\ UNCHANGED <<process, shared, runs, browser, thread, locals, calls, inFlight>>

\* lines 84, 105, 126: st.warning("Please enter ...")
ShowWarning(r, t) ==
  /\ pc[r] = "warning" /\ tab[r] = t
  /\ ~stopping[r]
  /\ Render(r, Element(t, "warning", WarningText(t)))
  /\ LeaveTab(r, t)
  /\ UNCHANGED <<process, shared, runs, browser, thread, locals, calls, inFlight>>

\* lines 128-129: the rule and st.info("Powered by Google Gemini LLM"); the
\* script has run to its end.
RenderFooter(r) ==
  /\ pc[r] = "footer"
  /\ ~stopping[r]
  /\ Render(r, Element(0, "info", FooterText))
  /\ Goto(r, "done")
  /\ UNCHANGED <<process, shared, runs, browser, thread, tab, locals, calls,
                 inFlight>>

\* ------------------------------------------------------------- script runs

\* The script of run r is over: it ran to its end or st.stop() ended it.
Idle(r) == pc[r] \in {"done", "stopped"}

\* Run r is executing the script.
Live(r) == pc[r] \notin {"none", "done", "stopped"}

\* f with the value at run new set to fresh and, when drop holds, the value at
\* run old set to blank.
Begin(f, new, fresh, old, drop, blank) ==
  [q \in Runs |-> IF q = new THEN fresh
                  ELSE IF drop /\ q = old THEN blank
                  ELSE f[q]]

\* The characters the fields w of a session hold.
Typed(w) == Len(w[1]) + Len(w[2]) + Len(w[3])

\* A script run of session s starts in a thread of its own, the button of
\* tab click reading True (0: none): the next run number, fresh script
\* variables, nothing rendered.  The latest run of the session gives way: a
\* run that is over is replaced, a run that is executing is told to stop and
\* goes on beside the new one.
StartRun(s, click) ==
  LET new == runs + 1
      old == current[s]
      over == old # 0 /\ Idle(old)
      told == old # 0 /\ ~Idle(old)
  IN  /\ runs < MaxRuns
      /\ Cardinality({r \in Runs : Live(r)}) < MaxThreads
      /\ runs' = new
      /\ current' = [current EXCEPT ![s] = new]
      /\ session' = Begin(session, new, s, old, over, 0)
      /\ clicked' = Begin(clicked, new, click, old, over, 0)
      /\ stopping' = Begin(stopping, new, FALSE, old, told, TRUE)
      /\ pc' = Begin(pc, new, "getenv", old, over, "none")
      /\ tab' = Begin(tab, new, 0, old, over, 0)
      /\ GOOGLE_API_KEY' = Begin(GOOGLE_API_KEY, new, NoValue, old, over, NoValue)
      /\ model' = Begin(model, new, FALSE, old, over, FALSE)
      /\ inputs' = Begin(inputs, new, NoInputs, old, over, NoInputs)
      /\ prompt' = Begin(prompt, new, NoValue, old, over, NoValue)
      /\ response' = Begin(response, new, NoValue, old, over, NoValue)
      /\ exc' = Begin(exc, new, NoValue, old, over, NoValue)
      /\ calls' = Begin(calls, new, <<>>, old, over, <<>>)
      /\ inFlight' = Begin(inFlight, new, 0, old, over, 0)
      /\ display' = Begin(display, new, <<>>, old, over, <<>>)
      /\ UNCHANGED <<process, shared>>

\* Run r, told to stop, reaches a Streamlit call: its thread ends there,
\* nothing rendered.
Abandon(r) ==
  /\ stopping[r]
  /\ AtStreamlitCall(r)
  /\ session' = [session EXCEPT ![r] = 0]
  /\ clicked' = [clicked EXCEPT ![r] = 0]
  /\ stopping' = [stopping EXCEPT ![r] = FALSE]
  /\ pc' = [pc EXCEPT ![r] = "none"]
  /\ tab' = [tab EXCEPT ![r] = 0]
  /\ GOOGLE_API_KEY' = [GOOGLE_API_KEY EXCEPT ![r] = NoValue]
  /\ model' = [model EXCEPT ![r] = FALSE]
  /\ inputs' = [inputs EXCEPT ![r] = NoInputs]
  /\ prompt' = [prompt EXCEPT ![r] = NoValue]
  /\ response' = [response EXCEPT ![r] = NoValue]
  /\ exc' = [exc EXCEPT ![r] = NoValue]
  /\ calls' = [calls EXCEPT ![r] = <<>>]
  /\ display' = [display EXCEPT ![r] = <<>>]
  /\ UNCHANGED <<process, shared, runs, browser, inFlight>>

\* A widget interaction of session s that leaves its fields holding w and
\* presses the button of tab click (0: none): the run it asks for starts at
\* once.
Interact(s, w, click) ==
  /\ current[s] # 0
  /\ Typed(w) <= MaxInputLen
  /\ widgets' = [widgets EXCEPT ![s] = w]
  /\ UNCHANGED <<fields, buttons>>
  /\ StartRun(s, click)

\* A browser loads or reloads the page: a new session with empty fields, and
\* its first script run.  It takes place s, none of whose runs is executing.
LoadPage(s) ==
  /\ \A r \in Runs : session[r] = s => Idle(r)
  /\ \A o \in Sessions : o < s => current[o] # 0
  /\ widgets' = [widgets EXCEPT ![s] = NoText]
  /\ fields' = [fields EXCEPT ![s] = {}]
  /\ buttons' = [buttons EXCEPT ![s] = {}]
  /\ StartRun(s, 0)

\* The user changes the text of a field the page shows.
EditField(s) ==
  \E t \in fields[s], v \in UserInputs :
    /\ v # widgets[s][t]
    /\ Interact(s, [widgets[s] EXCEPT ![t] = v], 0)

\* The user clicks a button the page shows.
ClickButton(s) ==
  \E t \in buttons[s] : Interact(s, widgets[s], t)

\* The user types into a field and clicks the button below it: the click
\* commits the text, and both reach the script together.
EditAndClick(s) ==
  \E t \in fields[s] \cap buttons[s], v \in UserInputs :
    /\ v # widgets[s][t]
    /\ Interact(s, [widgets[s] EXCEPT ![t] = v], t)

\* ------------------------------------------------------------ specification

Startup(r) ==
  \/ GetEnv(r)
  \/ CheckKey(r)
  \/ ConfigureFromEnv(r)
  \/ CheckSecrets(r)
  \/ ConfigureFromSecrets(r)
  \/ KeyMissing(r)
  \/ ConfigureError(r)
  \/ InitModel(r)
  \/ InitModelError(r)
  \/ RenderPage(r)

Handler(r, t) ==
  \/ ReadInput(r, t)
  \/ CheckButton(r, t)
  \/ Validate(r, t)
  \/ BuildPrompt(r, t)
  \/ CallModel(r, t)
  \/ ModelReturns(r, t)
  \/ ModelFails(r, t)
  \/ ShowHeading(r, t)
  \/ ResponseTextRaises(r, t)
  \/ ShowResponse(r, t)
  \/ ShowError(r, t)
  \/ ShowWarning(r, t)

\* One statement of the script in the thread of run r, or the end of a thread
\* told to stop.
ScriptStep(r) ==
  \/ Startup(r)
  \/ \E t \in Tabs : Handler(r, t)
  \/ RenderFooter(r)
  \/ Abandon(r)

Interaction(s) ==
  \/ LoadPage(s)
  \/ EditField(s)
  \/ ClickButton(s)
  \/ EditAndClick(s)

Next ==
  \/ \E r \in Runs : ScriptStep(r)
  \/ \E s \in Sessions : Interaction(s)

Spec == Init /\ [][Next]_vars

\* Every script thread keeps executing and the blocking call returns or raises.
FairSpec == Spec /\ \A r \in Runs : WF_vars(ScriptStep(r))
\* ------------------------------------------------- vocabulary of the claims

\* sub occurs in s as a contiguous run of characters.
Contains(s, sub) ==
  \E i \in 0..(Len(s) - Len(sub)) : SubSeq(s, i + 1, i + Len(sub)) = sub

\* s is empty or holds whitespace only (what str.strip() would reduce to "").
IsBlank(s) == \A i \in 1..Len(s) : s[i] \in {" ", "\t", "\n", "\r"}

\* What run r has rendered in tab t.
DisplayOf(r, t) == SelectSeq(display[r], LAMBDA e : e.tab = t)

KindsOf(r, t) == [i \in 1..Len(DisplayOf(r, t)) |-> DisplayOf(r, t)[i].kind]

\* The button of tab t reads True in run r and its handler has run to its
\* end.
Finished(r, t) ==
  clicked[r] = t /\ (tab[r] > t \/ pc[r] \in {"footer", "done"})

\* The state of tab t's handler in run r, in the terms of the state machine
\* Idle -> Validating -> Calling -> {Success, Failed}: Validating while the
\* input is tested (and the warning is due), Calling from the building of
\* the prompt until generate_content is over, Success while heading and
\* response are rendered, Failed while the except clause runs.
HState(r, t) ==
  IF tab[r] # t THEN "Idle"
  ELSE CASE pc[r] \in {"validate", "warning"} -> "Validating"
         [] pc[r] \in {"build", "generate", "await"} -> "Calling"
         [] pc[r] \in {"subheader", "markdown"} -> "Success"
         [] pc[r] = "except" -> "Failed"
         [] OTHER -> "Idle"

\* Neither the environment nor the secrets store yields a credential, a
\* non-empty API key.
NoCredentialAvailable ==
  /\ ~Truthy(env)
  /\ ~secrets.readable \/ ~Truthy(secrets.value)

\* No run calls genai.configure: the environment variable is unset or empty
\* and the secrets store cannot be read or has no entry for the key.
NothingToConfigure ==
  /\ ~Truthy(env)
  /\ ~secrets.readable \/ secrets.value = NoValue

\* The credential the resolution rule selects: the environment variable when
\* it is non-empty, otherwise the entry of the secrets store.
ExpectedCredential == IF Truthy(env) THEN env ELSE secrets.value

\* The runs that have not reached their genai.configure call.
BeforeConfigure ==
  {r \in Runs : pc[r] \in {"getenv", "check_key", "configure_env",
                           "check_secrets", "configure_secret"}}

\* The button of tab t reads True in run r, the run has called
\* generate_content and the call has raised.
GenerateFailed(r, t) ==
  /\ clicked[r] = t
  /\ calls[r] # <<>>
  /\ inFlight[r] = 0
  /\ response[r] = NoValue

\* The button of tab t reads True in run r and the call of the run has
\* returned a response whose text can be read.
GenerateReturned(r, t) ==
  /\ clicked[r] = t
  /\ response[r] # NoValue
  /\ response[r][1].has_text

\* The generate_content calls of session s that are in flight.
InFlightOf(s) ==
  Cardinality({r \in Runs : session[r] = s /\ inFlight[r] > 0})

\* ------------------------------------------------------------------ claims

\* C1: for every empty or whitespace-only input, triggering an action never
\* calls the model and the tab shows its empty-input warning.
C1_BlankInputNeverCallsModel ==
  \A r \in Runs, t \in Tabs :
    (clicked[r] = t /\ inputs[r][t] # NoValue /\ IsBlank(inputs[r][t][1]))
      => /\ \A i \in 1..Len(calls[r]) : calls[r][i].tab # t
         /\ Finished(r, t)
              => DisplayOf(r, t) = <<Element(t, "warning", WarningText(t))>>

\* C2: when neither the environment variable nor the secrets store yields a
\* credential, no script run leaves the startup code: it ends stopped with
\* a configuration error on the page, no credential is configured, no model
\* client is constructed, no field or button is shown, no handler is entered
\* and no model call is made.
C2_MissingCredentialHalts ==
  NoCredentialAvailable =>
    /\ credential = NoValue
    /\ \A s \in Sessions : fields[s] = {} /\ buttons[s] = {}
    /\ \A r \in Runs :
         /\ pc[r] \in {"none", "getenv", "check_key", "check_secrets",
                       "key_missing", "configure_error", "stopped"}
         /\ tab[r] = 0
         /\ ~model[r]
         /\ calls[r] = <<>> /\ inFlight[r] = 0
         /\ pc[r] = "stopped" =>
              /\ display[r] # <<>>
              /\ \A i \in 1..Len(display[r]) : display[r][i].kind = "error"
              /\ \/ display[r][Len(display[r])].text = KeyMissingText
                 \/ \E m \in ErrMsgs :
                      display[r][Len(display[r])].text = ConfigErrorText(m)

\* C3: whenever the model client is constructed or a generate call has been
\* attempted, the configured credential is a non-empty string.
C3_CredentialNonEmpty ==
  \A r \in Runs :
    (model[r] \/ calls[r] # <<>>)
      => (credential # NoValue /\ credential[1] # <<>>)

\* C4 as stated: a response S is shown under a heading, and the heading of
\* every one of the three tabs references the user input.
C4_HeadingReferencesInput ==
  \A r \in Runs, t \in Tabs :
    (Finished(r, t) /\ GenerateReturned(r, t))
      => /\ Len(DisplayOf(r, t)) = 2
         /\ KindsOf(r, t) = <<"subheader", "markdown">>
         /\ DisplayOf(r, t)[2].text = response[r][1].text
         /\ Contains(DisplayOf(r, t)[1].text, inputs[r][t][1])

\* C4 amended: a response S is shown, unchanged, right under a heading; the
\* headings of Explain Topic and Explain Concept quote the user input, the
\* heading of Debug Code is the fixed text "Debugging Report:".  In every
\* run a response is rendered only right under the heading of its tab.
C4_ResponseUnderHeading ==
  \A r \in Runs :
    /\ \A t \in Tabs :
         (Finished(r, t) /\ GenerateReturned(r, t))
           => /\ Len(DisplayOf(r, t)) = 2
              /\ KindsOf(r, t) = <<"subheader", "markdown">>
              /\ DisplayOf(r, t)[2].text = response[r][1].text
              /\ t = 1 => DisplayOf(r, t)[1].text = DebugHeading
              /\ t # 1 => Contains(DisplayOf(r, t)[1].text,
                                   <<"'">> \o inputs[r][t][1] \o <<"'">>)
    /\ \A i \in 1..Len(display[r]) :
         display[r][i].kind = "markdown"
           => /\ i > 1
              /\ display[r][i].text \in ResponseTexts
              /\ display[r][i - 1] =
                   Element(display[r][i].tab, "subheader",
                           HeadingText(display[r][i].tab,
                                       inputs[r][display[r][i].tab][1]))

\* C4 witness: Debug Code has rendered a response for an input that holds a
\* letter.
C4_Witness ==
  \E r \in Runs :
    /\ pc[r] = "done"
    /\ GenerateReturned(r, 1)
    /\ inputs[r][1] = Some(<<"z">>)
    /\ Len(DisplayOf(r, 1)) = 2

\* C5: when generate_content fails with message M, the tab shows one error
\* whose text contains M, the script is not stopped, its button stays on the
\* page, and the run goes on to the end of the page, from where the action
\* can be triggered again.
C5_CallFailureShown ==
  \A r \in Runs, t \in Tabs :
    GenerateFailed(r, t) =>
      /\ exc[r] # NoValue
      /\ pc[r] # "stopped"
      /\ ~stopping[r] => t \in buttons[session[r]]
      /\ pc[r] # "except" =>
           /\ Len(DisplayOf(r, t)) = 1
           /\ DisplayOf(r, t)[1].kind = "error"
           /\ Contains(DisplayOf(r, t)[1].text, exc[r][1])
      /\ pc[r] = "done" =>
           display[r][Len(display[r])] = Element(0, "info", FooterText)

\* C5 witness: a failed call whose run reached the end of the page.
C5_Witness ==
  \E r \in Runs :
    /\ GenerateFailed(r, 2)
    /\ pc[r] = "done"
    /\ Contains(DisplayOf(r, 2)[1].text, <<"q","u","o","t","a">>)

\* C6: the prompt built from a non-empty input, and every prompt passed to
\* generate_content, contains that input as a contiguous substring.
C6_PromptContainsInput ==
  \A r \in Runs :
    /\ pc[r] = "generate" => Contains(prompt[r][1], inputs[r][tab[r]][1])
    /\ \A i \in 1..Len(calls[r]) :
         /\ NonEmpty(inputs[r][calls[r][i].tab][1])
         /\ Contains(calls[r][i].prompt, inputs[r][calls[r][i].tab][1])

\* C6 witness: a prompt passed to the model for an input that holds a letter.
C6_Witness ==
  \E r \in Runs :
    /\ Len(calls[r]) = 1
    /\ inputs[r][calls[r][1].tab] = Some(<<"z">>)

\* C7: Calling is entered only from Validating with a non-empty input, Success
\* and Failed are entered only from Calling, and a handler that has left Idle
\* returns to Idle.
C7_HandlerStateMachine ==
  /\ [][\A r \in Runs, t \in Tabs :
          (HState(r, t)' = "Calling" /\ HState(r, t) # "Calling")
            => (HState(r, t) = "Validating" /\ NonEmpty(inputs[r][t][1]))]_vars
  /\ [][\A r \in Runs, t \in Tabs :
          (HState(r, t)' \in {"Success", "Failed"} /\ HState(r, t)' # HState(r, t))
            => HState(r, t) = "Calling"]_vars
  /\ \A r \in Runs, t \in Tabs :
       (HState(r, t) # "Idle") ~> (HState(r, t) = "Idle")

\* C8 as stated: within a session a triggered action runs to its end before
\* another trigger is accepted, so no two triggered actions execute at one
\* time and at most one generate_content call is in flight; a run calls once
\* at most, for the button that was triggered.
C8_RunsToCompletion ==
  /\ \A r, q \in Runs :
       (r # q /\ session[r] = session[q] /\ clicked[r] # 0 /\ clicked[q] # 0)
         => ~(Live(r) /\ Live(q))
  /\ \A s \in Sessions : InFlightOf(s) <= 1
  /\ \A r \in Runs :
       /\ Len(calls[r]) <= 1
       /\ \A i \in 1..Len(calls[r]) : calls[r][i].tab = clicked[r]

\* C8 amended: a trigger is accepted at any time and its run starts beside
\* the run of the session that is executing, which is told to stop and does
\* not run to its end; every run has at most one generate_content call in
\* flight, and only while its script waits at that call, so a session has as
\* many in flight as it has runs waiting there; a run calls once at most,
\* for the button that reads True in it, and not at all when none does.
C8_OneCallPerTrigger ==
  /\ \A r \in Runs :
       /\ inFlight[r] \in {0, 1}
       /\ inFlight[r] = 1 <=> pc[r] = "await"
       /\ Len(calls[r]) <= 1
       /\ \A i \in 1..Len(calls[r]) : calls[r][i].tab = clicked[r]
       /\ stopping[r] => (Live(r) /\ current[session[r]] # r)
       /\ (Live(r) /\ current[session[r]] # r) => stopping[r]
  /\ \A s \in Sessions :
       InFlightOf(s) = Cardinality({r \in Runs : session[r] = s /\ pc[r] = "await"})

\* C8 witness: two triggered actions of one session wait at their
\* generate_content calls at the same time.
C8_Witness ==
  \E r, q \in Runs :
    /\ r # q
    /\ session[r] = session[q]
    /\ pc[r] = "await" /\ pc[q] = "await"
    /\ clicked[r] # 0 /\ clicked[q] # 0
    /\ stopping[r]

\* C9 as stated: genai.configure is called once in the life of the process.
C9_ConfiguredOnce ==
  /\ configureCalls <= 1
  /\ configureCalls = 1 => credential = ExpectedCredential

\* C9 amended: every script run of every session sets the credential once,
\* at startup, to the environment variable when that is non-empty and
\* otherwise to the entry of the secrets store, so the reruns set it again,
\* to the same value; no statement after the startup code sets it.
C9_ConfiguredOncePerRun ==
  /\ configureCalls > 0 => credential = ExpectedCredential
  /\ configureCalls = 0 => credential = NoValue
  /\ configureCalls =
       IF NothingToConfigure THEN 0 ELSE runs - Cardinality(BeforeConfigure)

\* C9 witness: a rerun caused by a trigger has configured the credential a
\* second time and its handler has called the model.
C9_Witness ==
  /\ configureCalls > 1
  /\ configureCalls = runs
  /\ \E r \in Runs : pc[r] = "done" /\ clicked[r] # 0 /\ calls[r] # <<>>

\* C10: a triggered handler ends with exactly one of the three displays: the
\* warning alone, the heading with the response, or the error alone.
C10_ExclusiveDisplays ==
  \A r \in Runs, t \in Tabs :
    /\ clicked[r] = t =>
         ~(\E i, j \in 1..Len(DisplayOf(r, t)) :
             /\ DisplayOf(r, t)[i].kind = "subheader"
             /\ DisplayOf(r, t)[j].kind = "error")
    /\ Finished(r, t) =>
         KindsOf(r, t) \in {<<"warning">>, <<"subheader", "markdown">>, <<"error">>}
====
